---- MODULE Spec2Model ----
(***************************************************************************)
(* CareSphere backend: the serial sensor-ingestion service                 *)
(* (services/arduino_reader.py), the rule-based risk engine                *)
(* (services/rules_delirium.py) and the HTTP prediction service            *)
(* (services/delirium_service.py).                                         *)
(*                                                                         *)
(* Three specifications share the module:                                  *)
(*   Spec        - ArduinoDataStore + ArduinoReader, one controlling       *)
(*                 thread, the background workers and one querying thread  *)
(*   RulesSpec   - compute_delirium_risk_row applied to bounded inputs     *)
(*   ServiceSpec - the three endpoints that call the companion sensor API  *)
(* Units: risks and probabilities are in thousandths, temperatures in      *)
(* tenths of a degree, so every division of the source is exact.           *)
(***************************************************************************)
EXTENDS Integers, Sequences, FiniteSets, TLC

VARIABLES
    \* ---- ArduinoDataStore
    samples,        \* deque(maxlen=max_samples), oldest first
    latest,         \* self.latest
    data_lock,      \* threading.Lock: "unlocked" | "locked"
    \* ---- ArduinoReader
    serial_conn,    \* "None" | "open" | "closed"
    running,        \* self.running
    thread,         \* self.thread: 0 for None, else the worker's id
    wpc,            \* position of each background worker in _read_loop
    wdata,          \* each worker's local `data`
    cpc,            \* position of the controlling thread in start / stop
    cres,           \* last call's outcome: "none" | "raised" | "stop_returned"
    \* ---- a thread querying the store
    qpc, qop, qvals, qres,
    \* ---- history (not program state)
    added,          \* every sample passed to deque.append, in order
    qsnap,          \* the deque when the querying thread took the lock
    spawned,        \* number of Thread objects started
    recovery,       \* 0, then the first worker whose iteration failed, then
                    \* -1 once that worker has appended a sample
    \* ---- rule engine
    rpc, row, cfg, rule_out,
    \* ---- prediction service
    spc, endpoint, upstream, stats, age_param, response, classifier_input

reader_vars == <<samples, latest, data_lock, serial_conn, running, thread, wpc,
                 wdata, cpc, cres, qpc, qop, qvals, qres, added, qsnap, spawned,
                 recovery>>
rule_vars == <<rpc, row, cfg, rule_out>>
service_vars == <<spc, endpoint, upstream, stats, age_param, response,
                  classifier_input>>
vars == <<reader_vars, rule_vars, service_vars>>

-----------------------------------------------------------------------------
(* Bounds *)
max_samples == 2      \* capacity of the deque in the model
MaxAdds == 3          \* samples appended in one behaviour
MaxStarts == 2        \* threads started in one behaviour

Workers == 1..MaxStarts

-----------------------------------------------------------------------------
(* JSON values arriving on the serial line *)
Fields == {"light", "sound", "temperature", "heart_rate"}

JsonObject(keys, l, s, t, h) ==
    [type |-> "object", keys |-> keys,
     light |-> l, sound |-> s, temperature |-> t, heart_rate |-> h]

None == [type |-> "None", keys |-> {},
         light |-> 0, sound |-> 0, temperature |-> 0, heart_rate |-> 0]

\* what json.loads can return for a line that parses
JsonValues ==
    { JsonObject(Fields, 1, 2, 3, 4),
      JsonObject(Fields, 3, 1, 5, 2),
      [type |-> "number", keys |-> {},                 \* 5
       light |-> 0, sound |-> 0, temperature |-> 0, heart_rate |-> 0] }

\* s[f] succeeds: s is a dict that has the key f
Subscriptable(s, f) == s.type = "object" /\ f \in s.keys

Get(s, f) ==
    CASE f = "light" -> s.light
      [] f = "sound" -> s.sound
      [] f = "temperature" -> s.temperature
      [] f = "heart_rate" -> s.heart_rate

-----------------------------------------------------------------------------
(* ArduinoDataStore *)

\* (variant) a plain list: nothing is evicted
ListAppend(q, x, m) == Append(q, x)

\* line 21 and line 26: deque.append on a deque(maxlen=m)
DequeAppend(q, x, m) ==
    IF m = 0 THEN q
    ELSE IF Len(q) >= m THEN Append(Tail(q), x)
    ELSE Append(q, x)

Min(a, b) == IF a < b THEN a ELSE b

RECURSIVE Sum(_)
Sum(seq) == IF seq = <<>> THEN 0 ELSE Head(seq) + Sum(Tail(seq))

\* a quotient a / b kept exact as the pair <<a, b>>
Div(a, b) == <<a, b>>

Values(q, f) == [i \in 1..Len(q) |-> Get(q[i], f)]

\* "no data yet"
Empty(q) == Len(q) = 0

-----------------------------------------------------------------------------
(* ArduinoReader._read_loop, one instance per started Thread *)

Alive(w) == wpc[w] \notin {"unborn", "done"}

\* samples that a worker has parsed or appended so far (keeps `added` bounded)
Pending == Cardinality({w \in Workers : wpc[w] \in {"add_sample", "append"}})

ReaderUnchanged == UNCHANGED <<serial_conn, running, thread, cpc, cres, spawned>>
Failed(w) == IF recovery = 0 THEN w ELSE recovery
QueryUnchanged == UNCHANGED <<qpc, qop, qvals, qres, qsnap>>
StoreUnchanged == UNCHANGED <<samples, latest, data_lock, added>>
OtherSpecsUnchanged == UNCHANGED <<rule_vars, service_vars>>

\* line 93: while self.running
WhileRunning(w) ==
    /\ wpc[w] = "while"
    /\ wpc' = [wpc EXCEPT ![w] = IF running THEN "in_waiting" ELSE "done"]
    /\ UNCHANGED <<wdata, recovery>>
    /\ StoreUnchanged /\ ReaderUnchanged /\ QueryUnchanged /\ OtherSpecsUnchanged

\* (variant) the try block wraps the whole loop, so an exception ends it
LoopEndsOnException == "done"

\* lines 106-108: except Exception inside the while: log, sleep(1), then the
\* next evaluation of `while self.running`
AfterException == "while"

\* line 95: self.serial_conn.in_waiting > 0; the property raises on a port that
\* is not open and may raise on an I/O error (lines 106-108: log, sleep(1),
\* next iteration); lines 104-105 sleep when no input is waiting
InWaiting(w) ==
    /\ wpc[w] = "in_waiting"
    /\ \E outcome \in {"bytes", "idle", "io_error"} :
          /\ serial_conn # "open" => outcome = "io_error"
          /\ wpc' = [wpc EXCEPT ![w] =
                       CASE outcome = "bytes" -> "readline"
                         [] outcome = "idle" -> "while"
                         [] outcome = "io_error" -> AfterException]
          /\ recovery' = IF outcome = "io_error" THEN Failed(w) ELSE recovery
    /\ UNCHANGED wdata
    /\ StoreUnchanged /\ ReaderUnchanged /\ QueryUnchanged /\ OtherSpecsUnchanged

\* lines 96-99: readline().decode('utf-8').strip(), json.loads
\*   "io_error"     readline raises (always, when the port is not open)
\*   "undecodable"  decode raises UnicodeDecodeError
\*                  (both: lines 106-108 log, sleep(1), next iteration)
\*   "blank"        the stripped line is empty
\*   "not_json"     json.loads raises JSONDecodeError: lines 102-103 log it
\*   "json"         json.loads returns a value
ReadLine(w) ==
    /\ wpc[w] = "readline"
    /\ \E outcome \in {"io_error", "undecodable", "blank", "not_json", "json"} :
          /\ serial_conn # "open" => outcome = "io_error"
          /\ outcome = "json" => Len(added) + Pending < MaxAdds
          /\ IF outcome = "json"
             THEN \E v \in JsonValues :
                     /\ wdata' = [wdata EXCEPT ![w] = v]
                     /\ wpc' = [wpc EXCEPT ![w] = "add_sample"]
                     /\ UNCHANGED recovery
             ELSE /\ wpc' = [wpc EXCEPT ![w] =
                               IF outcome \in {"io_error", "undecodable"}
                               THEN AfterException ELSE "while"]
                  /\ recovery' = IF outcome = "blank" THEN recovery ELSE Failed(w)
                  /\ UNCHANGED wdata
    /\ StoreUnchanged /\ ReaderUnchanged /\ QueryUnchanged /\ OtherSpecsUnchanged

\* line 25: with self.data_lock (entered from line 100)
AddSampleLock(w) ==
    /\ wpc[w] = "add_sample"
    /\ data_lock = "unlocked"
    /\ data_lock' = "locked"
    /\ wpc' = [wpc EXCEPT ![w] = "append"]
    /\ UNCHANGED <<samples, latest, added, wdata, recovery>>
    /\ ReaderUnchanged /\ QueryUnchanged /\ OtherSpecsUnchanged

\* line 26: self.samples.append(sample)
AddSampleAppend(w) ==
    /\ wpc[w] = "append"
    /\ samples' = DequeAppend(samples, wdata[w], max_samples)
    /\ added' = Append(added, wdata[w])
    /\ wpc' = [wpc EXCEPT ![w] = "set_latest"]
    /\ recovery' = IF recovery = w THEN -1 ELSE recovery
    /\ UNCHANGED <<latest, data_lock, wdata>>
    /\ ReaderUnchanged /\ QueryUnchanged /\ OtherSpecsUnchanged

\* line 27: self.latest = sample, then the with block releases the lock
AddSampleLatest(w) ==
    /\ wpc[w] = "set_latest"
    /\ latest' = wdata[w]
    /\ data_lock' = "unlocked"
    /\ wpc' = [wpc EXCEPT ![w] = "while"]
    /\ wdata' = [wdata EXCEPT ![w] = None]      \* the local is dead from here on
    /\ UNCHANGED <<samples, added, recovery>>
    /\ ReaderUnchanged /\ QueryUnchanged /\ OtherSpecsUnchanged

-----------------------------------------------------------------------------
(* ArduinoReader.start and ArduinoReader.stop, called by one controlling thread *)

WorkersUnchanged == UNCHANGED <<wpc, wdata, recovery>>

\* lines 67-69: start while running only logs a warning
StartAlreadyRunning ==
    /\ cpc = "idle"
    /\ running
    /\ cres' = "none"
    /\ UNCHANGED <<serial_conn, running, thread, cpc, spawned>>
    /\ StoreUnchanged /\ WorkersUnchanged /\ QueryUnchanged /\ OtherSpecsUnchanged

\* line 67 with self.running false: enter the try block
StartCall ==
    /\ cpc = "idle"
    /\ ~running
    /\ spawned < MaxStarts
    /\ cpc' = "start_open"
    /\ cres' = "none"
    /\ UNCHANGED <<serial_conn, running, thread, spawned>>
    /\ StoreUnchanged /\ WorkersUnchanged /\ QueryUnchanged /\ OtherSpecsUnchanged

\* line 72 succeeds: self.serial_conn = serial.Serial(...)
StartOpenOk ==
    /\ cpc = "start_open"
    /\ serial_conn' = "open"
    /\ cpc' = "start_sleep"
    /\ UNCHANGED <<running, thread, cres, spawned>>
    /\ StoreUnchanged /\ WorkersUnchanged /\ QueryUnchanged /\ OtherSpecsUnchanged

\* (variant) self.running = True is set before the port is opened
StartOpenFailsRunningSet ==
    /\ cpc = "start_open"
    /\ cpc' = "idle"
    /\ cres' = "raised"
    /\ running' = TRUE
    /\ UNCHANGED <<serial_conn, thread, spawned>>
    /\ StoreUnchanged /\ WorkersUnchanged /\ QueryUnchanged /\ OtherSpecsUnchanged

\* line 72 raises SerialException: lines 78-80 log and re-raise
StartOpenFails ==
    /\ cpc = "start_open"
    /\ cpc' = "idle"
    /\ cres' = "raised"
    /\ UNCHANGED <<serial_conn, running, thread, spawned>>
    /\ StoreUnchanged /\ WorkersUnchanged /\ QueryUnchanged /\ OtherSpecsUnchanged

\* lines 73-74: time.sleep(2); self.running = True
StartSetRunning ==
    /\ cpc = "start_sleep"
    /\ running' = TRUE
    /\ cpc' = "start_thread"
    /\ UNCHANGED <<serial_conn, thread, cres, spawned>>
    /\ StoreUnchanged /\ WorkersUnchanged /\ QueryUnchanged /\ OtherSpecsUnchanged

\* lines 75-77: self.thread = Thread(target=self._read_loop); self.thread.start()
StartThread ==
    /\ cpc = "start_thread"
    /\ spawned' = spawned + 1
    /\ thread' = spawned + 1
    /\ wpc' = [wpc EXCEPT ![spawned + 1] = "while"]
    /\ cpc' = "idle"
    /\ cres' = "none"
    /\ UNCHANGED <<serial_conn, running, wdata, recovery>>
    /\ StoreUnchanged /\ QueryUnchanged /\ OtherSpecsUnchanged

\* lines 84-85: self.running = False; if self.thread: join
StopCall ==
    /\ cpc = "idle"
    /\ running' = FALSE
    /\ cpc' = IF thread # 0 THEN "stop_join" ELSE "stop_close"
    /\ cres' = "none"
    /\ UNCHANGED <<serial_conn, thread, spawned>>
    /\ StoreUnchanged /\ WorkersUnchanged /\ QueryUnchanged /\ OtherSpecsUnchanged

\* line 86: self.thread.join(timeout=2) returns because the thread has ended
StopJoinEnded ==
    /\ cpc = "stop_join"
    /\ ~Alive(thread)
    /\ cpc' = "stop_close"
    /\ UNCHANGED <<serial_conn, running, thread, cres, spawned>>
    /\ StoreUnchanged /\ WorkersUnchanged /\ QueryUnchanged /\ OtherSpecsUnchanged

\* line 86: self.thread.join(timeout=2) returns because the two seconds passed
StopJoinTimeout ==
    /\ cpc = "stop_join"
    /\ Alive(thread)
    /\ cpc' = "stop_close"
    /\ UNCHANGED <<serial_conn, running, thread, cres, spawned>>
    /\ StoreUnchanged /\ WorkersUnchanged /\ QueryUnchanged /\ OtherSpecsUnchanged

\* lines 87-89: close the connection if it is open, log, return
StopClose ==
    /\ cpc = "stop_close"
    /\ serial_conn' = IF serial_conn = "open" THEN "closed" ELSE serial_conn
    /\ cpc' = "idle"
    /\ cres' = "stop_returned"
    /\ UNCHANGED <<running, thread, spawned>>
    /\ StoreUnchanged /\ WorkersUnchanged /\ QueryUnchanged /\ OtherSpecsUnchanged

-----------------------------------------------------------------------------
(* A thread calling ArduinoDataStore.get_latest / get_aggregated_stats *)

Result(kind, value) == [kind |-> kind, value |-> value]
NoResult == Result("pending", <<>>)
NoCall == "none"

QueryRest == UNCHANGED <<samples, latest, added>>
                /\ ReaderUnchanged /\ WorkersUnchanged /\ OtherSpecsUnchanged

\* lines 30-31: with self.data_lock: return self.latest
GetLatest ==
    /\ qpc = "idle"
    /\ data_lock = "unlocked"
    /\ data_lock' = "locked"
    /\ qop' = "get_latest"
    /\ qsnap' = samples
    /\ qres' = Result("value", latest)
    /\ qpc' = "release"
    /\ UNCHANGED qvals
    /\ QueryRest

Minutes == {1, 5}

\* lines 35-37: with self.data_lock: if not self.samples: return None
\* (`minutes` is accepted and never read)
GetAggregatedStats(minutes) ==
    /\ qpc = "idle"
    /\ minutes \in Minutes
    /\ data_lock = "unlocked"
    /\ data_lock' = "locked"
    /\ qop' = "get_aggregated_stats"
    /\ qsnap' = samples
    /\ IF Empty(samples)
       THEN qres' = Result("value", None) /\ qpc' = "release"
       ELSE qres' = NoResult /\ qpc' = "collect"
    /\ UNCHANGED qvals
    /\ QueryRest

\* lines 40-43: the four list comprehensions; s['light'] raises TypeError on a
\* value that is not a dict and KeyError on a dict without the key
StatsCollect ==
    /\ qpc = "collect"
    /\ IF \A i \in 1..Len(samples) : \A f \in Fields : Subscriptable(samples[i], f)
       THEN /\ qvals' = [f \in Fields |-> Values(samples, f)]
            /\ qres' = qres
            /\ qpc' = "return"
       ELSE /\ qvals' = qvals
            /\ qres' = Result("raised", <<>>)
            /\ qpc' = "release"
    /\ UNCHANGED <<data_lock, qop, qsnap>>
    /\ QueryRest

\* lines 45-51: the means and len(self.samples)
StatsReturn ==
    /\ qpc = "return"
    /\ qres' = Result("stats",
                 [light_mean |-> Div(Sum(qvals["light"]), Len(qvals["light"])),
                  sound_mean |-> Div(Sum(qvals["sound"]), Len(qvals["sound"])),
                  temp_mean |-> Div(Sum(qvals["temperature"]),
                                    Len(qvals["temperature"])),
                  hr_mean |-> Div(Sum(qvals["heart_rate"]),
                                  Len(qvals["heart_rate"])),
                  sample_count |-> Len(samples)])
    /\ qpc' = "release"
    /\ qvals' = [f \in Fields |-> <<>>]
    /\ UNCHANGED <<data_lock, qop, qsnap>>
    /\ QueryRest

\* leaving the with block (by return or by exception) releases the lock
QueryRelease ==
    /\ qpc = "release"
    /\ data_lock' = "unlocked"
    /\ qpc' = "idle"
    /\ qop' = NoCall
    /\ qres' = NoResult          \* the value has been handed to the caller
    /\ qsnap' = <<>>
    /\ UNCHANGED qvals
    /\ QueryRest

-----------------------------------------------------------------------------
(* Initial state: ArduinoDataStore.__init__, ArduinoReader.__init__ *)

ReaderInit ==
    /\ samples = <<>>
    /\ latest = None
    /\ data_lock = "unlocked"
    /\ serial_conn = "None"
    /\ running = FALSE
    /\ thread = 0
    /\ wpc = [w \in Workers |-> "unborn"]
    /\ wdata = [w \in Workers |-> None]
    /\ cpc = "idle"
    /\ cres = "none"
    /\ qpc = "idle"
    /\ qop = NoCall
    /\ qvals = [f \in Fields |-> <<>>]
    /\ qres = NoResult
    /\ added = <<>>
    /\ qsnap = <<>>
    /\ spawned = 0
    /\ recovery = 0

RulesIdle == rpc = "idle" /\ row = <<>> /\ cfg = <<>> /\ rule_out = <<>>

ServiceIdle ==
    /\ spc = "idle"
    /\ endpoint = "none"
    /\ upstream = "none"
    /\ stats = <<>>
    /\ age_param = 0
    /\ response = <<>>
    /\ classifier_input = <<>>

Init == ReaderInit /\ RulesIdle /\ ServiceIdle

Next ==
    \/ \E w \in Workers : WhileRunning(w)
    \/ \E w \in Workers : InWaiting(w)
    \/ \E w \in Workers : ReadLine(w)
    \/ \E w \in Workers : AddSampleLock(w)
    \/ \E w \in Workers : AddSampleAppend(w)
    \/ \E w \in Workers : AddSampleLatest(w)
    \/ StartAlreadyRunning
    \/ StartCall
    \/ StartOpenOk
    \/ StartOpenFails
    \/ StartSetRunning
    \/ StartThread
    \/ StopCall
    \/ StopJoinEnded
    \/ StopJoinTimeout
    \/ StopClose
    \/ GetLatest
    \/ \E m \in Minutes : GetAggregatedStats(m)
    \/ StatsCollect
    \/ StatsReturn
    \/ QueryRelease

Spec == Init /\ [][Next]_vars

-----------------------------------------------------------------------------
(* rules_delirium.py: DeliriumRiskConfig and compute_delirium_risk_row.       *)
(* Sound in dB, light in lux, heart rate in bpm and age in years are whole    *)
(* numbers; temperatures are in tenths of a degree; risks in thousandths.     *)

DeliriumRiskConfig ==
    [noise_threshold_db |-> 60, fever_threshold_c |-> 380,
     tachy_threshold_bpm |-> 100, high_age_threshold |-> 75,
     circadian_ratio_threshold |-> 1500, base_risk |-> 50,
     label_threshold |-> 500]

\* the default configuration and caller-supplied ones
Configs ==
    { DeliriumRiskConfig,
      [DeliriumRiskConfig EXCEPT !.base_risk = 900],
      [DeliriumRiskConfig EXCEPT !.base_risk = -300],
      [DeliriumRiskConfig EXCEPT !.label_threshold = 250],
      [DeliriumRiskConfig EXCEPT !.label_threshold = 1000, !.base_risk = 0],
      [DeliriumRiskConfig EXCEPT !.noise_threshold_db = 50,
                                 !.fever_threshold_c = 375,
                                 !.tachy_threshold_bpm = 90,
                                 !.high_age_threshold = 65,
                                 !.circadian_ratio_threshold = 50000] }

\* day / night illuminance pairs (lux is never negative)
LightPairs == { <<500, 10>>, <<500, 20>>, <<100, 100>>, <<0, 0>>, <<14, 9>>, <<0, 1000>> }

Rows ==
    { [sound_mean_db |-> sm, sound_night_db |-> sn, light_day_lux |-> lp[1],
       light_night_lux |-> lp[2], hr_mean |-> hr, temp_mean |-> t, age |-> a] :
        sm \in {45, 60, 63, 70}, sn \in {40, 60, 64, 80, 1000}, lp \in LightPairs,
        hr \in {70, 100, 120, 140, 180}, t \in {368, 380, 390, 400, 420},
        a \in {50, 75, 90} }

\* contributions[key] = extra
Put(map, key, extra) ==
    [k \in DOMAIN map \cup {key} |-> IF k = key THEN extra ELSE map[k]]

\* (variant) the risk is returned as accumulated
Unclipped(risk) == risk

\* line 74: np.clip(risk, 0.0, 1.0)
Clip(risk) == IF risk < 0 THEN 0 ELSE IF risk > 1000 THEN 1000 ELSE risk

\* line 49-50: (light_day_lux + 1.0) / (light_night_lux + 1.0) < threshold,
\* the divisor being positive
RatioBelow(day, night, threshold) == (day + 1) * 1000 < threshold * (night + 1)

\* lines 33-76, statement by statement
compute_delirium_risk_row(r, c) ==
    LET \* lines 37-40: min(0.25, (sound_night_db - noise_threshold_db) / 40.0)
        night == r.sound_night_db > c.noise_threshold_db
        e1 == Min(250, (r.sound_night_db - c.noise_threshold_db) * 25)
        risk1 == IF night THEN c.base_risk + e1 ELSE c.base_risk
        con1 == IF night THEN Put(<<>>, "night_noise", e1) ELSE <<>>
        \* lines 42-45: min(0.10, (sound_mean_db - noise_threshold_db) / 50.0)
        overall == r.sound_mean_db > c.noise_threshold_db
        e2 == Min(100, (r.sound_mean_db - c.noise_threshold_db) * 20)
        risk2 == IF overall THEN risk1 + e2 ELSE risk1
        con2 == IF overall THEN Put(con1, "overall_noise", e2) ELSE con1
        \* lines 49-53: flat 0.20
        circadian == RatioBelow(r.light_day_lux, r.light_night_lux,
                                c.circadian_ratio_threshold)
        risk3 == IF circadian THEN risk2 + 200 ELSE risk2
        con3 == IF circadian THEN Put(con2, "circadian_light", 200) ELSE con2
        \* lines 56-59: min(0.20, (temp_mean - fever_threshold_c) / 2.0)
        fever == r.temp_mean >= c.fever_threshold_c
        e4 == Min(200, (r.temp_mean - c.fever_threshold_c) * 50)
        risk4 == IF fever THEN risk3 + e4 ELSE risk3
        con4 == IF fever THEN Put(con3, "fever", e4) ELSE con3
        \* lines 62-65: min(0.20, (hr_mean - tachy_threshold_bpm) / 40.0)
        tachy == r.hr_mean >= c.tachy_threshold_bpm
        e5 == Min(200, (r.hr_mean - c.tachy_threshold_bpm) * 25)
        risk5 == IF tachy THEN risk4 + e5 ELSE risk4
        con5 == IF tachy THEN Put(con4, "tachycardia", e5) ELSE con4
        \* lines 68-71: flat 0.20
        old == r.age >= c.high_age_threshold
        risk6 == IF old THEN risk5 + 200 ELSE risk5
        con6 == IF old THEN Put(con5, "age", 200) ELSE con5
        \* lines 74-76
        risk == Clip(risk6)
        label == IF risk >= c.label_threshold THEN 1 ELSE 0
    IN  [risk |-> risk, label |-> label, contributions |-> con6]

\* a caller applies the function to one row under one configuration
RiskRowCall ==
    /\ rpc = "idle"
    /\ \E r \in Rows, c \in Configs :
          /\ row' = r
          /\ cfg' = c
          /\ rule_out' = compute_delirium_risk_row(r, c)
    /\ rpc' = "returned"
    /\ UNCHANGED <<reader_vars, service_vars>>

\* the caller drops the result
RiskRowDone ==
    /\ rpc = "returned"
    /\ rpc' = "idle"
    /\ row' = <<>> /\ cfg' = <<>> /\ rule_out' = <<>>
    /\ UNCHANGED <<reader_vars, service_vars>>

-----------------------------------------------------------------------------
(* delirium_service.py: the endpoints that call the companion sensor API.     *)
(* One request is in flight at a time; each handler awaits one GET and then   *)
(* finishes. Probabilities are in thousandths.                                *)

\* the Feature List Artifact (line 24)
feature_cols == <<"sound_mean_db", "sound_night_db", "light_day_lux",
                  "light_night_lux", "hr_mean", "temp_mean", "age">>

Endpoints == {"/sensor-data/latest", "/sensor-data/stats",
              "/predict-delirium/from-arduino"}

\* how `await client.get(..., timeout=5.0)` can end
UpstreamOutcomes == {"200", "404", "500", "ConnectError", "ReadTimeout"}

\* line 85 / 97 / 154: response.raise_for_status()
RaisesForStatus(outcome) == outcome \in {"404", "500"}

\* the exception leaving the try block, "none" if there is none
Raised(outcome) ==
    IF outcome \in {"ConnectError", "ReadTimeout"} THEN outcome
    ELSE IF RaisesForStatus(outcome) THEN "HTTPStatusError"
    ELSE "none"

\* (variant) except httpx.HTTPStatusError: transport errors escape
IsHTTPStatusError(exc) == exc = "HTTPStatusError"

\* lines 87 / 99 / 156: except httpx.HTTPError
IsHTTPError(exc) == exc \in {"ConnectError", "ReadTimeout", "HTTPStatusError"}

\* str(e): whatever text the exception carries
ErrorText(outcome) ==
    CASE outcome = "ConnectError" -> "All connection attempts failed"
      [] outcome = "ReadTimeout" -> "timed out"
      [] outcome = "404" -> "Client error '404 Not Found'"
      [] outcome = "500" -> "Server error '500 Internal Server Error'"
      [] OTHER -> ""

\* lines 88 / 100 / 157: HTTPException(503, f"Sensor API unavailable: {e}")
Unavailable(outcome) ==
    [status |-> 503, body |-> <<"Sensor API unavailable: ", ErrorText(outcome)>>]

\* an exception no handler catches: the framework answers 500
InternalServerError == [status |-> 500, body |-> <<"Internal Server Error">>]

\* bodies of GET /api/sensors/stats: the statistics object, with or without
\* hr_mean, or null when the companion has no data
StatsPayloads ==
    { [type |-> "object", sound_mean |-> so, light_mean |-> li, temp_mean |-> te,
       has_hr_mean |-> hh, hr_mean |-> IF hh THEN hr ELSE 0] :
        so \in {40, 700}, li \in {0, 300}, te \in {22, 39},
        hh \in BOOLEAN, hr \in {60, 110} }
    \cup { [type |-> "null", sound_mean |-> 0, light_mean |-> 0, temp_mean |-> 0,
            has_hr_mean |-> FALSE, hr_mean |-> 0] }

Ages == {50, 75, 90}

\* model.predict_proba(x)[0, 1]: the classifier is an external artifact
Probabilities == {0, 199, 200, 499, 500, 1000}

\* lines 62-76
risk_level_from_score(score) ==
    IF score < 200 THEN "LOW" ELSE IF score < 500 THEN "MEDIUM" ELSE "HIGH"

\* (variant) the heart rate is taken from the statistics when they carry one
input_dict_with_hr(st, age) ==
    [sound_mean_db |-> st.sound_mean, sound_night_db |-> st.sound_mean,
     light_day_lux |-> st.light_mean, light_night_lux |-> st.light_mean,
     hr_mean |-> IF st.has_hr_mean THEN st.hr_mean ELSE 75,
     temp_mean |-> st.temp_mean, age |-> age]

\* lines 162-170
input_dict(st, age) ==
    [sound_mean_db |-> st.sound_mean, sound_night_db |-> st.sound_mean,
     light_day_lux |-> st.light_mean, light_night_lux |-> st.light_mean,
     hr_mean |-> 75, temp_mean |-> st.temp_mean, age |-> age]

\* line 173: [input_dict[f] for f in feature_cols]
FeatureVector(d) == [i \in 1..Len(feature_cols) |-> d[feature_cols[i]]]

ServiceRest == UNCHANGED <<reader_vars, rule_vars>>

\* a client calls one of the three endpoints; age defaults to 75.0 (line 130)
Request(ep, age) ==
    /\ spc = "idle"
    /\ ep \in Endpoints
    /\ endpoint' = ep
    /\ age_param' = IF ep = "/predict-delirium/from-arduino" THEN age ELSE 0
    /\ spc' = "awaiting"
    /\ upstream' = "none"
    /\ stats' = <<>>
    /\ response' = <<>>
    /\ classifier_input' = <<>>
    /\ ServiceRest

\* lines 82-88 and 94-100: get_latest_sensor_data / get_sensor_stats finish
Passthrough(outcome, payload) ==
    /\ spc = "awaiting"
    /\ endpoint \in {"/sensor-data/latest", "/sensor-data/stats"}
    /\ upstream' = outcome
    /\ response' = IF Raised(outcome) = "none"
                   THEN [status |-> 200, body |-> payload]
                   ELSE IF IsHTTPError(Raised(outcome)) THEN Unavailable(outcome)
                   ELSE InternalServerError
    /\ spc' = "responded"
    /\ UNCHANGED <<endpoint, stats, age_param, classifier_input>>
    /\ ServiceRest

\* lines 151-157: predict_delirium_from_arduino fetches the statistics
PredictFetch(outcome, payload) ==
    /\ spc = "awaiting"
    /\ endpoint = "/predict-delirium/from-arduino"
    /\ upstream' = outcome
    /\ IF Raised(outcome) = "none"
       THEN /\ stats' = payload
            /\ spc' = "fetched"
            /\ UNCHANGED response
       ELSE /\ response' = IF IsHTTPError(Raised(outcome))
                           THEN Unavailable(outcome) ELSE InternalServerError
            /\ spc' = "responded"
            /\ UNCHANGED stats
    /\ UNCHANGED <<endpoint, age_param, classifier_input>>
    /\ ServiceRest

\* lines 162-193: the feature mapping, the classifier, the response; stats[...]
\* raises TypeError when the body was null
PredictClassify(proba) ==
    /\ spc = "fetched"
    /\ IF stats.type = "object"
       THEN /\ classifier_input' = FeatureVector(input_dict(stats, age_param))
            /\ response' = [status |-> 200,
                            body |-> [risk_score |-> proba,
                                      risk_level |-> risk_level_from_score(proba),
                                      label |-> IF proba >= 500 THEN 1 ELSE 0]]
       ELSE /\ response' = InternalServerError
            /\ UNCHANGED classifier_input
    /\ spc' = "responded"
    /\ UNCHANGED <<endpoint, upstream, stats, age_param>>
    /\ ServiceRest

\* the response has been sent
Respond ==
    /\ spc = "responded"
    /\ spc' = "idle"
    /\ endpoint' = "none"
    /\ upstream' = "none"
    /\ stats' = <<>>
    /\ age_param' = 0
    /\ response' = <<>>
    /\ classifier_input' = <<>>
    /\ ServiceRest

-----------------------------------------------------------------------------
(* Properties of the sensor-ingestion service, checked under Spec *)

LastAdded == IF added = <<>> THEN None ELSE added[Len(added)]

\* the last min(n, C) samples passed to add_sample, oldest first
Retained == SubSeq(added, Len(added) - Min(Len(added), max_samples) + 1, Len(added))

\* C1: in every state a reader can observe under the lock (the lock is free to
\* take, or the querying thread holds it) the deque holds exactly the last
\* min(n, max_samples) of the n samples added so far, in insertion order, and
\* `latest` is the n-th (None when n = 0); get_latest returns that value.
RollingBufferEviction ==
    /\ (data_lock = "unlocked" \/ qpc # "idle") =>
          /\ Len(samples) = Min(Len(added), max_samples)
          /\ samples = Retained
          /\ latest = LastAdded
    /\ (qpc = "release" /\ qop = "get_latest") =>
          qres.kind = "value" /\ qres.value = LastAdded

\* more samples were added than the deque holds, so the oldest were evicted
EvictionHappened ==
    /\ Len(added) > max_samples
    /\ max_samples > 0
    /\ data_lock = "unlocked"
    /\ added[1] # added[Len(added)]

\* stop has returned and neither start nor stop was called since
StopHasReturned == cpc = "idle" /\ cres = "stop_returned"

\* C2: once stop has returned the connection is not open and no worker is about
\* to read the port or to run add_sample, whether the join ended or timed out.
StopEndsIngestion ==
    StopHasReturned =>
        /\ serial_conn # "open"
        /\ \A w \in Workers : wpc[w] \notin {"add_sample", "append", "set_latest"}

\* a step of worker w that ends an iteration without a sample: no input, an
\* empty line, a line that is not JSON, or an exception
IterationWithoutSample(w) ==
    /\ wpc[w] \in {"in_waiting", "readline"}
    /\ wpc'[w] \notin {"in_waiting", "readline", "add_sample"}

\* C3: a worker leaves its loop only when it reads self.running as false, which
\* only stop makes it; an iteration that fails (bad JSON, I/O error, undecodable
\* bytes) leaves the deque, latest and running as they were and the worker back
\* at the top of its loop.
IngestionSurvivesErrors ==
    [][ /\ \A w \in Workers :
              /\ (Alive(w) /\ wpc'[w] = "done") => (wpc[w] = "while" /\ ~running)
              /\ IterationWithoutSample(w) =>
                    /\ wpc'[w] = "while"
                    /\ UNCHANGED <<samples, latest, running, serial_conn>>
        /\ (running /\ ~running') => (cpc = "idle" /\ cpc' \in {"stop_join", "stop_close"})
      ]_vars

\* a worker's iteration failed and the same worker later appended a sample, in
\* a reader that was started once and never stopped
RecoveredAfterError ==
    /\ recovery = -1
    /\ spawned = 1
    /\ running
    /\ serial_conn = "open"
    /\ Len(samples) > 0

\* C4: when serial.Serial raises, start ends by raising with running false, no
\* thread started, no open connection and the store untouched; the next start
\* passes the `if self.running` test again.
StartFailureLeavesStopped ==
    /\ []((cpc = "start_open" \/ (cpc = "idle" /\ cres = "raised")) =>
             (~running /\ serial_conn # "open"))
    /\ [][(cpc = "start_open" /\ cpc' = "idle") =>
             /\ cres' = "raised"
             /\ UNCHANGED <<running, serial_conn, thread, spawned, wpc, wdata,
                            samples, latest, added>>
         ]_vars

\* start raised on a reader that had run and been stopped before
StartRaisedAfterARun ==
    /\ cpc = "idle"
    /\ cres = "raised"
    /\ serial_conn = "closed"
    /\ spawned >= 1

Mean(q, f) == Div(Sum(Values(q, f)), Len(q))

\* C5: get_aggregated_stats returns None exactly when the deque it locked is
\* empty, and otherwise the count and the four means of that same deque.
AggregatedStatsOfBuffer ==
    (qpc = "release" /\ qop = "get_aggregated_stats") =>
        IF Empty(qsnap)
        THEN qres.kind = "value" /\ qres.value = None
        ELSE /\ qres.kind = "stats"
             /\ qres.value = [light_mean |-> Mean(qsnap, "light"),
                              sound_mean |-> Mean(qsnap, "sound"),
                              temp_mean |-> Mean(qsnap, "temperature"),
                              hr_mean |-> Mean(qsnap, "heart_rate"),
                              sample_count |-> Len(qsnap)]

\* C9: at most one worker thread is alive at any time.
AtMostOneWorker == Cardinality({w \in Workers : Alive(w)}) <= 1

\* C10: every stored sample is an object with the four sensor fields, and
\* get_aggregated_stats never raises.
StoredSamplesAreSensorObjects ==
    /\ \A i \in 1..Len(samples) : \A f \in Fields : Subscriptable(samples[i], f)
    /\ qres.kind # "raised"

-----------------------------------------------------------------------------
(* Properties of the rule engine, checked under RulesSpec *)

RulesNext == RiskRowCall \/ RiskRowDone

RulesSpec == Init /\ [][RulesNext]_vars

Factors == {"night_noise", "overall_noise", "circadian_light", "fever",
            "tachycardia", "age"}

\* the threshold condition of each factor
Met(f, r, c) ==
    CASE f = "night_noise" -> r.sound_night_db > c.noise_threshold_db
      [] f = "overall_noise" -> r.sound_mean_db > c.noise_threshold_db
      [] f = "circadian_light" ->
            (r.light_day_lux + 1) * 1000
               < c.circadian_ratio_threshold * (r.light_night_lux + 1)
      [] f = "fever" -> r.temp_mean >= c.fever_threshold_c
      [] f = "tachycardia" -> r.hr_mean >= c.tachy_threshold_bpm
      [] f = "age" -> r.age >= c.high_age_threshold

RECURSIVE SumOfValues(_)
SumOfValues(map) ==
    IF DOMAIN map = {} THEN 0
    ELSE LET k == CHOOSE k \in DOMAIN map : TRUE
         IN  map[k] + SumOfValues([j \in DOMAIN map \ {k} |-> map[j]])

-----------------------------------------------------------------------------
(* Properties of the prediction service, checked under ServiceSpec *)

ServiceNext ==
    \/ \E ep \in Endpoints, a \in Ages : Request(ep, a)
    \/ \E o \in UpstreamOutcomes, p \in StatsPayloads : Passthrough(o, p)
    \/ \E o \in UpstreamOutcomes, p \in StatsPayloads : PredictFetch(o, p)
    \/ \E pr \in Probabilities : PredictClassify(pr)
    \/ Respond

ServiceSpec == Init /\ [][ServiceNext]_vars

UpstreamFailed == upstream \in {"404", "500", "ConnectError", "ReadTimeout"}

\* C6: when the call to the companion API fails (unreachable, timed out, or a
\* non-success status) each of the three endpoints answers 503 with the
\* upstream error text, and the live prediction never reaches the classifier.
UpstreamFailureIs503 ==
    (spc = "responded" /\ UpstreamFailed) =>
        /\ response.status = 503
        /\ response.body = <<"Sensor API unavailable: ", ErrorText(upstream)>>
        /\ classifier_input = <<>>

\* the live prediction was asked for and the companion API timed out
LivePredictionTimedOut ==
    /\ spc = "responded"
    /\ endpoint = "/predict-delirium/from-arduino"
    /\ upstream = "ReadTimeout"

Feature(name) ==
    classifier_input[CHOOSE i \in 1..Len(feature_cols) : feature_cols[i] = name]

ClassifierInvoked == spc = "responded" /\ classifier_input # <<>>

OtherFeaturesFromStats ==
    /\ Feature("sound_mean_db") = stats.sound_mean
    /\ Feature("sound_night_db") = stats.sound_mean
    /\ Feature("light_day_lux") = stats.light_mean
    /\ Feature("light_night_lux") = stats.light_mean
    /\ Feature("temp_mean") = stats.temp_mean
    /\ Feature("age") = age_param

\* C8 as stated: hr_mean is the companion API's hr_mean when the statistics
\* supply one and 75.0 when they do not; the other features as listed.
HrMeanFromStatsWhenSupplied ==
    ClassifierInvoked =>
        /\ Feature("hr_mean") = IF stats.has_hr_mean THEN stats.hr_mean ELSE 75
        /\ OtherFeaturesFromStats

\* C8 as amended: hr_mean is 75.0 whether or not the statistics supply an
\* hr_mean; the other features as listed.
HrMeanIsAlwaysDefault ==
    ClassifierInvoked =>
        /\ Feature("hr_mean") = 75
        /\ OtherFeaturesFromStats

\* a live prediction was made from statistics that carry a heart rate
PredictedWithHrSupplied ==
    /\ ClassifierInvoked
    /\ stats.has_hr_mean
    /\ stats.hr_mean # 75
    /\ age_param # 75

====
